---------------------------- MODULE Spec2Model ----------------------------
(***************************************************************************)
(* A model of genstruct.py: the cell manager, the bond compatibility       *)
(* rules, structure assembly (insert / bonding / update_connectivities /   *)
(* overlap_bu / __copy__) and the breadth-first growth search              *)
(* (Generate.exhaustive_sampling).                                         *)
(*                                                                         *)
(* Geometry is kept exact by working on the integer grid: positions are    *)
(* integer 3-vectors, the alignment vectors para and perp are signed axis  *)
(* vectors, and every rotation the program performs is then a rotation by  *)
(* a multiple of 90 degrees about a coordinate axis.  Fractional           *)
(* coordinates are rationals <<num, den>> with den > 0.  A float that the  *)
(* program poisons with NaN (0/0 in snap_to) is carried as the unit's nan  *)
(* flag.  Distances are carried as squared distances.                      *)
(***************************************************************************)
EXTENDS Integers, Sequences, FiniteSets, TLC

(***************************************************************************)
(* Bounds of the model.                                                    *)
(***************************************************************************)
\* exhaustive_sampling's ceiling on len(add_list) + len(structures); the
\* program's value is 20000 (line 1041), scaled down so that runs reach it.
StructureCap == 4
\* generations of the while loop that the model expands
MaxGen == 6
\* special and constraint tags of the bond-compatibility specification:
\* None and 1 .. TagMax
TagMax == 2
\* positions in blocks (0 .. IndexMax) and symmetry flags (1 .. SymmetryMax)
\* of the calls of get_symmetry_info
IndexMax == 2
SymmetryMax == 3
\* vectors handed to periodic_shift: components in -ShiftRange .. ShiftRange
ShiftRange == 3

(***************************************************************************)
(* Python's None, as the empty tuple; a tag t is <<t>>.                    *)
(***************************************************************************)
None == <<>>

(***************************************************************************)
(* numpy vectors on the grid                                               *)
(***************************************************************************)
Zero3 == <<0, 0, 0>>

Dot(a, b) == a[1] * b[1] + a[2] * b[2] + a[3] * b[3]

Cross(a, b) ==
  << a[2] * b[3] - a[3] * b[2],
     a[3] * b[1] - a[1] * b[3],
     a[1] * b[2] - a[2] * b[1] >>

VAdd(a, b) == << a[1] + b[1], a[2] + b[2], a[3] + b[3] >>

VSub(a, b) == << a[1] - b[1], a[2] - b[2], a[3] - b[3] >>

VScale(n, a) == << n * a[1], n * a[2], n * a[3] >>

VNeg(a) == VScale(-1, a)

\* squared Euclidean length
Len2(a) == Dot(a, a)

Abs(n) == IF n < 0 THEN -n ELSE n

\* rounding of n/d (d > 0) with halves rounded away from zero
Rint_half_away(n, d) ==
  LET q == n \div d
      r == n % d
  IN  IF 2 * r < d THEN q
      ELSE IF 2 * r > d THEN q + 1
      ELSE IF q >= 0 THEN q + 1 ELSE q

\* np.rint / np.around of the rational n/d (d > 0): round half to even
Rint(n, d) ==
  LET q == n \div d
      r == n % d
  IN  IF 2 * r < d THEN q
      ELSE IF 2 * r > d THEN q + 1
      ELSE IF q % 2 = 0 THEN q ELSE q + 1

\* a rational with a positive denominator
Rat(n, d) == IF d < 0 THEN << -n, -d >> ELSE << n, d >>

(***************************************************************************)
(* Cell                                                                    *)
(***************************************************************************)
Identity3 == << <<1, 0, 0>>, <<0, 1, 0>>, <<0, 0, 1>> >>

\* Cell.__init__.  nlattice[i] is unit_vector(lattice[i]) and ilattice is
\* the (pseudo-)inverse of lattice[:index] at all times (add_vector sets
\* both), so the two are computed from lattice where they are read.
NewCell ==
  [ lattice |-> Identity3,
    index   |-> 0,
    origin  |-> << Zero3, Zero3, Zero3 >> ]

\* np.dot(v, ilattice): the coordinates of v in lattice[:index], by
\* get_inverse's M[:index].I: the Moore-Penrose inverse of a 1x3 or 2x3
\* matrix (of rank 1 when the two rows are collinear), the inverse of a
\* 3x3 one (Cramer's rule).
Fractional(cell, v) ==
  LET a == cell.lattice[1]
      b == cell.lattice[2]
      c == cell.lattice[3]
  IN  CASE cell.index = 0 -> << >>
        [] cell.index = 1 -> << Rat(Dot(v, a), Dot(a, a)) >>
        [] cell.index = 2 ->
             LET aa == Dot(a, a)
                 bb == Dot(b, b)
                 ab == Dot(a, b)
                 D  == aa * bb - ab * ab
             IN  IF D # 0
                 THEN << Rat(bb * Dot(v, a) - ab * Dot(v, b), D),
                         Rat(aa * Dot(v, b) - ab * Dot(v, a), D) >>
                 ELSE << Rat(Dot(v, a) * aa, aa * aa + ab * ab),
                         Rat(Dot(v, a) * ab, aa * aa + ab * ab) >>
        [] OTHER ->
             LET det == Dot(a, Cross(b, c))
             IN  << Rat(Dot(v, Cross(b, c)), det),
                    Rat(Dot(v, Cross(c, a)), det),
                    Rat(Dot(v, Cross(a, b)), det) >>

\* np.dot(n, lattice[:index]) for an integer row n
RECURSIVE LatticeSum(_, _, _)
LatticeSum(cell, n, i) ==
  IF i = 0 THEN Zero3
  ELSE VAdd(LatticeSum(cell, n, i - 1), VScale(n[i], cell.lattice[i]))

\* np.rint / np.around of a row of rationals
RintAll(f) == [ i \in 1..Len(f) |-> Rint(f[i][1], f[i][2]) ]

\* np.allclose(np.dot(cellv, normvect), 1): the cosine of the angle is 1.
\* On the grid two directions that are not equal differ by far more than
\* allclose's 1e-5.
SameDirection(a, b) ==
  /\ Dot(a, b) > 0
  /\ Dot(a, b) * Dot(a, b) = Len2(a) * Len2(b)

\* Cell.planar: the triple product of the unit vectors is (close to) 0
planar(cell, vector) ==
  Dot(vector, Cross(cell.lattice[1], cell.lattice[2])) = 0

\* valid_vector without the test for a cell that already holds 3 vectors
valid_vector_no_full_check(cell, vector) ==
  IF \E i \in 1..cell.index : SameDirection(cell.lattice[i], vector)
  THEN FALSE
  ELSE IF cell.index = 2 THEN ~planar(cell, vector)
  ELSE TRUE

\* Cell.valid_vector
valid_vector(cell, vector) ==
  IF \E i \in 1..cell.index : SameDirection(cell.lattice[i], vector)
  THEN FALSE
  ELSE IF cell.index = 2
       THEN ~planar(cell, vector)
       ELSE IF cell.index = 3 THEN FALSE
       ELSE TRUE

\* a cell that drops the vector handed to it
add_vector_dropped(cell, vector, org) == cell

\* Cell.add_vector (with bonding's write of cell.origin[cell.index] just
\* before it, lines 537-539).  numpy raises IndexError for a 4th row; the
\* model records the overrun as index 4, which ends bonding and the search.
add_vector(cell, vector, org) ==
  IF cell.index >= 3
  THEN [ cell EXCEPT !.index = cell.index + 1 ]
  ELSE [ cell EXCEPT !.lattice[cell.index + 1] = vector,
                     !.origin[cell.index + 1]  = org,
                     !.index = cell.index + 1 ]

\* Cell.periodic_shift
periodic_shift(cell, vector) ==
  IF cell.index # 0
  THEN VSub(vector,
            LatticeSum(cell, RintAll(Fractional(cell, vector)), cell.index))
  ELSE vector

\* np.allclose(length(svect), 0., atol=0.2): length <= 0.2
NearZero(svect) == 25 * Len2(svect) <= 1

(***************************************************************************)
(* Geometry kernel (module operations, imported by genstruct.py): on       *)
(* the grid, angles are multiples of 90 degrees.                           *)
(***************************************************************************)
\* calc_angle, in degrees, of two grid directions
calc_angle(a, b) ==
  IF SameDirection(a, b) THEN 0
  ELSE IF Dot(a, b) = 0 THEN 90
  ELSE 180

CosDeg(t) == CASE t = 0 -> 1 [] t = 180 -> -1 [] t = -180 -> -1 [] OTHER -> 0

SinDeg(t) == CASE t = 90 -> 1 [] t = -90 -> -1 [] OTHER -> 0

\* R[:3,:3] of rotation_matrix(axis, angle) applied to v: the right-handed
\* rotation about the unit vector axis (it rotates a onto b for
\* axis = cross(a, b) and the angle between them)
Rotate(axis, angle, v) ==
  VAdd(VAdd(VScale(CosDeg(angle), v),
            VScale(SinDeg(angle), Cross(axis, v))),
       VScale((1 - CosDeg(angle)) * Dot(axis, v), axis))

\* rotation_matrix(axis, angle, point) applied to the position x
RotateAbout(axis, angle, point, x) ==
  VAdd(point, Rotate(axis, angle, VSub(x, point)))

\* parallel(a, b, tol=0.2) of two grid directions
parallel(a, b) == SameDirection(a, b)

\* Radii (module bookkeeping, imported by genstruct.py), grid units
Radii == [ e \in {"Zn", "C", "H"} |->
             CASE e = "Zn" -> 1 [] e = "C" -> 1 [] OTHER -> 1 ]

\* dist < (Radii[e1] + Radii[e2]) * num/den, on the squared distance d2
Closer(d2, e1, e2, num, den) ==
  den * den * d2 < (Radii[e1] + Radii[e2]) * (Radii[e1] + Radii[e2]) * num * num

(***************************************************************************)
(* Atom, ConnectPoint, BuildingUnit                                        *)
(***************************************************************************)
\* Atom.__init__ followed by build_atoms' index assignment (ind, 0-based)
Atom(element, coordinates, ind) ==
  [ element     |-> element,
    coordinates |-> coordinates,
    bonds       |-> << >>,
    index       |-> ind ]

\* ConnectPoint.__init__ for one connectivity record.  atoms holds the
\* positions (in the unit's atoms list) of the Atom objects it refers to.
ConnectPoint(index, coordinates, para, perp, symmetry, special) ==
  [ index       |-> index,
    coordinates |-> coordinates,
    para        |-> para,
    perp        |-> perp,
    order       |-> 0,
    metal       |-> FALSE,
    bu_order    |-> 0,
    atoms       |-> << >>,
    bonded      |-> FALSE,
    bond_from_search |-> FALSE,
    special     |-> special,
    constraint  |-> None,
    symmetry    |-> symmetry,
    bond_label  |-> None ]

\* build_bond_const: the constraint of the point with index pt_index
ConstraintOf(constraints, pt_index) ==
  LET hits == { k \in 1..Len(constraints) : constraints[k][1] = pt_index }
  IN  IF hits = {} THEN None
      ELSE << constraints[CHOOSE k \in hits : \A m \in hits : m <= k][2] >>

\* BuildingUnit.__init__: build_connect_points (order, metal),
\* build_atoms (atom indices; table rows <<"a", i, j, type>> bond two
\* atoms, rows <<"c", c, i, type>> bond connect point c to atom i; c and
\* i are 0-based list positions), build_bond_const and the centre of mass.
BuildingUnit(name, metal, connectivity, coordinates, table, constraints, com) ==
  LET atomRows == { k \in 1..Len(table) : table[k][1] = "a" }
      AtomBonds(i) ==
        \* the indices appended to atoms[i].bonds, in table order
        LET F[k \in 0..Len(table)] ==
              IF k = 0 THEN << >>
              ELSE IF table[k][1] = "a" /\ table[k][2] = i
                     THEN Append(F[k - 1], table[k][3])
                   ELSE IF table[k][1] = "a" /\ table[k][3] = i
                     THEN Append(F[k - 1], table[k][2])
                   ELSE F[k - 1]
        IN  F[Len(table)]
      CpAtoms(c) ==
        LET F[k \in 0..Len(table)] ==
              IF k = 0 THEN << >>
              ELSE IF table[k][1] = "c" /\ table[k][2] = c
                     THEN Append(F[k - 1], table[k][3] + 1)
                   ELSE F[k - 1]
        IN  F[Len(table)]
      atoms == [ i \in 1..Len(coordinates) |->
                   [ Atom(coordinates[i][1], coordinates[i][2], i - 1)
                       EXCEPT !.bonds = AtomBonds(i - 1) ] ]
  IN  [ name           |-> name,
        internal_index |-> 0,
        order          |-> 0,
        metal          |-> metal,
        nan            |-> FALSE,
        COM            |-> com,
        connect_points |->
          [ c \in 1..Len(connectivity) |->
              [ connectivity[c] EXCEPT
                  !.order = c - 1,
                  !.metal = metal,
                  !.atoms = CpAtoms(c - 1),
                  !.constraint = ConstraintOf(constraints, connectivity[c].index) ] ],
        atoms          |-> atoms,
        bonds          |->
          [ k \in 1..Len(table) |->
              IF table[k][1] = "a"
              THEN [ frm |-> << "atom", table[k][2] + 1 >>,
                     to  |-> << "atom", table[k][3] + 1 >>,
                     type |-> table[k][4],
                     distance |-> Len2(VSub(coordinates[table[k][3] + 1][2],
                                            coordinates[table[k][2] + 1][2])) ]
              ELSE [ frm |-> << "cp", table[k][2] + 1 >>,
                     to  |-> << "atom", table[k][3] + 1 >>,
                     type |-> table[k][4],
                     distance |-> Len2(VSub(coordinates[table[k][3] + 1][2],
                                            connectivity[table[k][2] + 1].coordinates)) ] ] ]

(***************************************************************************)
(* Bond compatibility                                                      *)
(***************************************************************************)
\* valid_bond (module level)
valid_bond(bu, cp, bu2, cp2) ==
  IF ~cp.bonded /\ ~cp2.bonded
  THEN IF (cp.special = cp2.constraint) \/ (cp.constraint = cp2.special)
       THEN IF cp.special = None
            THEN IF bu.metal = bu2.metal THEN FALSE ELSE TRUE
            ELSE TRUE
       ELSE FALSE
  ELSE FALSE

\* spec_compatible without the metal / non-metal exclusion
spec_compatible_any_metal(bond, newbond) ==
  IF bond.bonded THEN FALSE
  ELSE (bond.special = newbond.constraint) \/ (newbond.special = bond.constraint)

\* Generate.spec_compatible
spec_compatible(bond, newbond) ==
  IF bond.bonded THEN FALSE
  ELSE IF (bond.special = newbond.constraint)
            \/ (newbond.special = bond.constraint)
       THEN IF bond.special = None /\ newbond.special = None
                 /\ bond.metal = newbond.metal
            THEN FALSE
            ELSE TRUE
       ELSE FALSE

\* the two tuples left in the order given
SortedPair_as_given(p, q) == << p, q >>

\* Python's sort of a list of two (int, int) tuples
SortedPair(p, q) ==
  IF p[1] < q[1] \/ (p[1] = q[1] /\ p[2] <= q[2]) THEN << p, q >> ELSE << q, p >>

\* Generate.get_symmetry_info
get_symmetry_info(bu, cp, add_bu, add_cp) ==
  SortedPair(<< bu.internal_index, cp.symmetry >>,
             << add_bu.internal_index, add_cp.symmetry >>)

(***************************************************************************)
(* Alignment engine                                                        *)
(***************************************************************************)
\* a rigid motion applied to every atom and connect point of a unit:
\* positions are rotated about pt and translated by trans_v, the para and
\* perp vectors are rotated
MoveUnit(bu, axis, angle, pt, trans_v) ==
  [ bu EXCEPT
      !.atoms = [ i \in 1..Len(bu.atoms) |->
                    [ bu.atoms[i] EXCEPT !.coordinates =
                        VAdd(RotateAbout(axis, angle, pt, @), trans_v) ] ],
      !.connect_points =
        [ c \in 1..Len(bu.connect_points) |->
            [ bu.connect_points[c] EXCEPT
                !.coordinates = VAdd(RotateAbout(axis, angle, pt, @), trans_v),
                !.para = Rotate(axis, angle, @),
                !.perp = Rotate(axis, angle, @) ] ] ]

\* BuildingUnit.snap_to(self_point, connect_point); target_nan says that
\* connect_point's coordinates are NaN.  An angle of 180 degrees (equal para
\* vectors) gives cross = 0 and axis = 0/0: every coordinate of the unit
\* becomes NaN, as it does when an operand already is NaN.
snap_to(bu, self_pt, connect_point, target_nan) ==
  LET self_point == bu.connect_points[self_pt]
      angle == calc_angle(self_point.para, VNeg(connect_point.para))
  IN  IF bu.nan \/ target_nan THEN [ bu EXCEPT !.nan = TRUE ]
      ELSE IF angle = 0
      THEN \* translation only: no rotation is applied
           MoveUnit(bu, << 1, 0, 0 >>, 0, Zero3,
                    VSub(connect_point.coordinates, self_point.coordinates))
      ELSE LET cr == Cross(self_point.para, connect_point.para)
           IN  IF cr = Zero3 THEN [ bu EXCEPT !.nan = TRUE ]
               ELSE LET axis == cr   \* a unit vector already, on the grid
                        pt == IF bu.COM = Zero3 THEN Zero3 ELSE bu.COM
                        trans_v ==
                          VSub(connect_point.coordinates,
                               RotateAbout(axis, angle, pt, self_point.coordinates))
                    IN  MoveUnit(bu, axis, angle, pt, trans_v)

\* BuildingUnit.align_to(self_point, connect_point)
align_to(bu, self_pt, connect_point) ==
  LET self_point == bu.connect_points[self_pt]
      angle == calc_angle(self_point.perp, connect_point.perp)
      axis == connect_point.para
      ok == calc_angle(Rotate(axis, angle, self_point.perp),
                       connect_point.perp) = 0
      ang == IF ok THEN angle ELSE -angle
  IN  IF bu.nan THEN bu
      ELSE IF angle = 0 THEN bu
      ELSE MoveUnit(bu, axis, ang, self_point.coordinates, Zero3)

(***************************************************************************)
(* Structure.  A structure s is worked on together with the contents of    *)
(* the global bond table its bonds field refers to: w = [s, tab].          *)
(***************************************************************************)
\* Structure.__init__; bonds is the identity of the list object
Structure(table_id) ==
  [ building_units |-> << >>,
    cell           |-> NewCell,
    natoms         |-> 0,
    bonds          |-> table_id,
    sym_id         |-> << >> ]

\* Structure.atom_min_img_shift
atom_min_img_shift(cell, pos1, pos2) ==
  IF cell.index # 0
  THEN VAdd(pos2, LatticeSum(cell, RintAll(Fractional(cell, VSub(pos1, pos2))),
                             cell.index))
  ELSE pos2

\* Structure.saturated
saturated(s) ==
  \A u \in 1..Len(s.building_units) :
    \A c \in 1..Len(s.building_units[u].connect_points) :
      s.building_units[u].connect_points[c].bonded

\* the atom-to-atom entries update_connectivities takes from add_bu.bonds
RECURSIVE AtomBondRows(_, _)
AtomBondRows(bu, k) ==
  IF k = 0 THEN << >>
  ELSE LET bond == bu.bonds[k]
       IN  IF bond.frm[1] = "cp" \/ bond.to[1] = "cp"
           THEN AtomBondRows(bu, k - 1)
           ELSE Append(AtomBondRows(bu, k - 1),
                       << bu.atoms[bond.frm[2]].index,
                          bu.atoms[bond.to[2]].index,
                          bond.type, bond.distance >>)

\* the loop over cp.atoms x add_cp.atoms of update_connectivities: pairs is
\* the list of <<position in unit u1, position in unit u2>>
RECURSIVE AtomPairLoop(_, _, _, _, _)
AtomPairLoop(w, u1, u2, pairs, k) ==
  IF k > Len(pairs) THEN w
  ELSE
    LET bu1  == w.s.building_units[u1]
        bu2  == w.s.building_units[u2]
        atm  == bu1.atoms[pairs[k][1]]
        atm2 == bu2.atoms[pairs[k][2]]
        shiftcoord == atom_min_img_shift(w.s.cell, atm.coordinates,
                                         atm2.coordinates)
        dist == Len2(VSub(atm.coordinates, shiftcoord))
        near == /\ ~bu1.nan /\ ~bu2.nan
                /\ Closer(dist, atm.element, atm2.element, 6, 10)
        s1 == [ w.s EXCEPT
                  !.building_units[u1].atoms[pairs[k][1]].bonds =
                     Append(@, atm2.index) ]
        s2 == [ s1 EXCEPT
                  !.building_units[u2].atoms[pairs[k][2]].bonds =
                     Append(@, atm.index) ]
    IN  IF near
        THEN AtomPairLoop([ s |-> s2,
                            tab |-> Append(w.tab, << atm.index, atm2.index,
                                                     "S", dist >>) ],
                          u1, u2, pairs, k + 1)
        ELSE AtomPairLoop(w, u1, u2, pairs, k + 1)

\* the positions in unit cp[1] that hold the ConnectPoint object of position
\* cp.  Structure.__copy__ fills the places of all points of a unit that
\* carry one index with one object (ccp[0], lines 747-752); the unit
\* insert has just appended (the last one) still has one object per place.
SamePoint(s, cp) ==
  LET pts == s.building_units[cp[1]].connect_points
  IN  { c \in 1..Len(pts) :
          \/ c = cp[2]
          \/ /\ cp[1] < Len(s.building_units)
             /\ pts[c].index = pts[cp[2]].index }

\* a point that receives its bond label and stays unbonded
SetBonded_label_only(s, cp, symmetry_label) ==
  [ s EXCEPT !.building_units[cp[1]].connect_points =
      [ c \in 1..Len(@) |->
          IF c \in SamePoint(s, cp)
          THEN [ @[c] EXCEPT !.bond_label = symmetry_label ]
          ELSE @[c] ] ]

\* cp.bonded = True; cp.bond_label = symmetry_label (lines 662-663)
SetBonded(s, cp, symmetry_label) ==
  [ s EXCEPT !.building_units[cp[1]].connect_points =
      [ c \in 1..Len(@) |->
          IF c \in SamePoint(s, cp)
          THEN [ @[c] EXCEPT !.bonded = TRUE, !.bond_label = symmetry_label ]
          ELSE @[c] ] ]

\* cp.bond_from_search = True
SetFromSearch(s, cp) ==
  [ s EXCEPT !.building_units[cp[1]].connect_points =
      [ c \in 1..Len(@) |->
          IF c \in SamePoint(s, cp)
          THEN [ @[c] EXCEPT !.bond_from_search = TRUE ]
          ELSE @[c] ] ]

\* Structure.update_connectivities(bu, cp, add_bu, add_cp): bu and add_bu
\* are positions in building_units, cp and add_cp are <<unit, point>>
\* positions of the two ConnectPoint objects
update_connectivities(w, bu, cp, add_bu, add_cp) ==
  LET s0 == w.s
      cpo == s0.building_units[cp[1]].connect_points[cp[2]]
      add_cpo == s0.building_units[add_cp[1]].connect_points[add_cp[2]]
      symmetry_label ==
        SortedPair(<< s0.building_units[bu].internal_index, cpo.symmetry >>,
                   << s0.building_units[add_bu].internal_index,
                      add_cpo.symmetry >>)
      s1 == SetBonded(s0, cp, symmetry_label)
      s2 == SetBonded(s1, add_cp, symmetry_label)
      tab1 == w.tab \o AtomBondRows(s0.building_units[add_bu],
                                    Len(s0.building_units[add_bu].bonds))
      pairs == [ n \in 1..(Len(cpo.atoms) * Len(add_cpo.atoms)) |->
                   << cpo.atoms[((n - 1) \div Len(add_cpo.atoms)) + 1],
                      add_cpo.atoms[((n - 1) % Len(add_cpo.atoms)) + 1] >> ]
  IN  AtomPairLoop([ s |-> s2, tab |-> tab1 ], cp[1], add_cp[1], pairs, 1)

\* Structure.is_aligned
is_aligned(s, cp1, cp2) ==
  LET a == s.building_units[cp1[1]]
      b == s.building_units[cp2[1]]
      p == a.connect_points[cp1[2]]
      q == b.connect_points[cp2[2]]
  IN  /\ ~a.nan /\ ~b.nan
      /\ parallel(VNeg(p.para), q.para)
      /\ parallel(p.perp, q.perp)

\* [cp for bu in building_units for cp in bu.connect_points], as positions
RECURSIVE ConnectPts(_, _)
ConnectPts(units, u) ==
  IF u = 0 THEN << >>
  ELSE ConnectPts(units, u - 1)
         \o [ c \in 1..Len(units[u].connect_points) |-> << u, c >> ]

MarkFromSearch(s, cp1, cp2) ==
  SetFromSearch(SetFromSearch(s, cp1), cp2)

\* the test of line 519 on one pair
BondTest(s, cp1, cp2) ==
  LET p == s.building_units[cp1[1]].connect_points[cp1[2]]
      q == s.building_units[cp2[1]].connect_points[cp2[2]]
  IN  /\ valid_bond(s.building_units[p.bu_order + 1], p,
                    s.building_units[q.bu_order + 1], q)
      /\ is_aligned(s, cp1, cp2)

\* one pair (cp1, cp2) of bonding's loop, lines 505-549
BondingStep(w, cp1, cp2) ==
  LET s == w.s
      p == s.building_units[cp1[1]].connect_points[cp1[2]]
      q == s.building_units[cp2[1]].connect_points[cp2[2]]
      ibu1 == p.bu_order + 1
      ibu2 == q.bu_order + 1
      dvect == VSub(q.coordinates, p.coordinates)
      svect == periodic_shift(s.cell, dvect)
  IN  IF BondTest(s, cp1, cp2)
      THEN IF NearZero(svect)
           THEN LET w1 == update_connectivities(w, ibu1, cp1, ibu2, cp2)
                IN  [ w1 EXCEPT !.s = MarkFromSearch(@, cp1, cp2) ]
           ELSE IF valid_vector(s.cell, dvect)
           THEN LET w0 == [ w EXCEPT !.s.cell =
                              add_vector(@, dvect, p.coordinates) ]
                    w1 == update_connectivities(w0, ibu1, cp1, ibu2, cp2)
                IN  IF w0.s.cell.index > 3 THEN w0   \* IndexError raised
                    ELSE [ w1 EXCEPT !.s = MarkFromSearch(@, cp1, cp2) ]
           ELSE w
      ELSE w

\* itertools.combinations(connect_pts, 2), in its order, from pair (i, j)
\* on.  A pair that fails the test of line 519 leaves everything as it
\* is, so the loop moves straight to the next pair that passes it.
RECURSIVE BondingLoop(_, _, _, _)
BondingLoop(w, pts, i, j) ==
  LET n == Len(pts)
      rest == { pr \in (1..n) \X (1..n) :
                  /\ pr[1] < pr[2]
                  /\ pr[1] > i \/ (pr[1] = i /\ pr[2] >= j)
                  /\ BondTest(w.s, pts[pr[1]], pts[pr[2]]) }
  IN  IF rest = {} THEN w
      ELSE LET pr == CHOOSE x \in rest : \A y \in rest :
                       x[1] < y[1] \/ (x[1] = y[1] /\ x[2] <= y[2])
               w1 == BondingStep(w, pts[pr[1]], pts[pr[2]])
           IN  \* an IndexError of add_vector ends the loop
               IF w1.s.cell.index > 3 THEN w1
               ELSE BondingLoop(w1, pts, pr[1], pr[2] + 1)

\* Structure.bonding
bonding(w) ==
  BondingLoop(w, ConnectPts(w.s.building_units, Len(w.s.building_units)), 1, 2)

\* atoms left with the indices they came with
OffsetIndices_none(atoms, natoms) == atoms

\* lines 481-485: atom.index += natoms; the loop over atom.bonds rebinds
\* its loop variable and leaves the list as it was
OffsetIndices(atoms, natoms) ==
  [ i \in 1..Len(atoms) |-> [ atoms[i] EXCEPT !.index = @ + natoms ] ]

\* Structure.insert(bu, bond, add_bu, add_bond) up to its call of bonding
\* (lines 469-490): bu is a position in building_units, bond the
\* <<unit, point>> position of the target point, add_bu the new unit and
\* add_bond the position of its point
insert_unit(w, bu, bond, add_bu, add_bond) ==
  LET s0 == w.s
      target == s0.building_units[bond[1]].connect_points[bond[2]]
      target_nan == s0.building_units[bond[1]].nan
      order == Len(s0.building_units)      \* len(building_units) - 1
      snapped == snap_to(add_bu, add_bond, target, target_nan)
      ordered == [ snapped EXCEPT
                     !.order = order,
                     !.connect_points =
                        [ c \in 1..Len(snapped.connect_points) |->
                            [ snapped.connect_points[c] EXCEPT
                                !.bu_order = order ] ] ]
      aligned == align_to(ordered, add_bond, target)
      indexed == [ aligned EXCEPT !.atoms = OffsetIndices(@, s0.natoms) ]
      s1 == [ s0 EXCEPT
                !.building_units = Append(@, indexed),
                !.natoms = @ + Len(add_bu.atoms) ]
  IN  update_connectivities([ w EXCEPT !.s = s1 ], bu, bond,
                            order + 1, << order + 1, add_bond >>)

\* Structure.insert(bu, bond, add_bu, add_bond)
insert(w, bu, bond, add_bu, add_bond) ==
  bonding(insert_unit(w, bu, bond, add_bu, add_bond))

\* [a for bu in building_units for a in bu.atoms], as positions
RECURSIVE FlatAtoms(_, _)
FlatAtoms(units, u) ==
  IF u = 0 THEN << >>
  ELSE FlatAtoms(units, u - 1)
         \o [ i \in 1..Len(units[u].atoms) |-> << u, i >> ]

\* Structure.overlap_bu(bu) with Structure.min_img_shift: bu is a position
\* in building_units.  A distance that involves a NaN coordinate compares
\* False with the threshold.
overlap_bu(s, bu) ==
  LET all == FlatAtoms(s.building_units, Len(s.building_units))
      unit == s.building_units[bu]
  IN  \E i \in 1..Len(unit.atoms) :
        LET atom == unit.atoms[i]
            excl == { atom.index } \cup { atom.bonds[k] : k \in 1..Len(atom.bonds) }
        IN  \E n \in 1..Len(all) :
              LET idx == n - 1
                  obu == s.building_units[all[n][1]]
                  other == obu.atoms[all[n][2]]
                  coords == atom_min_img_shift(s.cell, atom.coordinates,
                                               other.coordinates)
                  dist == Len2(VSub(atom.coordinates, coords))
              IN  /\ idx \notin excl
                  /\ ~unit.nan /\ ~obu.nan
                  /\ Closer(dist, atom.element, other.element, 4, 1000)

\* the positions in the flat atom list whose atom has this index
AtomsWithIndex(s, index) ==
  LET all == FlatAtoms(s.building_units, Len(s.building_units))
  IN  SelectSeq(all, LAMBDA a : s.building_units[a[1]].atoms[a[2]].index = index)

\* the points of unit bu whose index field is this one
PointsWithIndex(bu, index) ==
  SelectSeq([ c \in 1..Len(bu.connect_points) |-> c ],
            LAMBDA c : bu.connect_points[c].index = index)

\* Structure.__copy__ ends in an IndexError (cat[0], ccp[0] of an empty
\* list) when a lookup by index finds nothing
CopyFails(s) ==
  \E u \in 1..Len(s.building_units) :
    \/ \E i \in 1..Len(s.building_units[u].atoms) :
         AtomsWithIndex(s, s.building_units[u].atoms[i].index) = << >>
    \/ \E c \in 1..Len(s.building_units[u].connect_points) :
         PointsWithIndex(s.building_units[u],
                         s.building_units[u].connect_points[c].index) = << >>

\* Structure.__copy__: dup.__dict__ = self.__dict__.copy() keeps natoms and
\* the list objects bonds and sym_id; the cell is deep-copied; units, atoms
\* and points are copied and re-linked by index lookup (the first match).
StructureCopy(s) ==
  [ building_units |->
      [ u \in 1..Len(s.building_units) |->
          LET bu == s.building_units[u]
          IN  [ bu EXCEPT
                  !.atoms =
                    [ i \in 1..Len(bu.atoms) |->
                        LET cat == AtomsWithIndex(s, bu.atoms[i].index)[1]
                        IN  [ s.building_units[cat[1]].atoms[cat[2]]
                                EXCEPT !.bonds = bu.atoms[i].bonds ] ],
                  !.connect_points =
                    [ c \in 1..Len(bu.connect_points) |->
                        LET same == PointsWithIndex(bu, bu.connect_points[c].index)
                            ccp == same[1]
                            \* ccp.atoms is assigned once for every point
                            \* with this index: the last one stays
                            cp  == bu.connect_points[same[Len(same)]]
                            found(p) == AtomsWithIndex(s, bu.atoms[p].index)
                            Links[k \in 0..Len(cp.atoms)] ==
                              IF k = 0 THEN << >>
                              ELSE Links[k - 1]
                                     \o [ m \in 1..Len(found(cp.atoms[k])) |->
                                            found(cp.atoms[k])[m][2] ]
                        IN  [ bu.connect_points[ccp] EXCEPT
                                !.atoms = Links[Len(cp.atoms)] ] ] ] ],
    cell   |-> s.cell,
    natoms |-> s.natoms,
    bonds  |-> s.bonds,
    sym_id |-> s.sym_id ]

(***************************************************************************)
(* Catalogs: the bu_db arguments exhaustive_sampling is run on.            *)
(***************************************************************************)
Xp == << 1, 0, 0 >>
Xm == << -1, 0, 0 >>
Yp == << 0, 1, 0 >>
Ym == << 0, -1, 0 >>
Zp == << 0, 0, 1 >>
Zm == << 0, 0, -1 >>

\* a metal centre and a linker with four points each; joined at one pair,
\* the other three pairs span three lattice vectors
CubicMetal ==
  BuildingUnit("M4", TRUE,
    << ConnectPoint(0, Xp, Xp, Yp, 1, None),
       ConnectPoint(1, Yp, Yp, Zp, 1, None),
       ConnectPoint(2, Zp, Zp, Xp, 1, None),
       ConnectPoint(3, Xm, Xm, Yp, 1, None) >>,
    << << "Zn", Zero3 >> >>,
    << << "c", 0, 0, "S" >>, << "c", 1, 0, "S" >>,
       << "c", 2, 0, "S" >>, << "c", 3, 0, "S" >> >>,
    << >>, Zero3)

CubicLinker ==
  BuildingUnit("L4", FALSE,
    << ConnectPoint(0, Xm, Xm, Yp, 1, None),
       ConnectPoint(1, Ym, Ym, Zp, 1, None),
       ConnectPoint(2, Zm, Zm, Xp, 1, None),
       ConnectPoint(3, Xp, Xp, Yp, 1, None) >>,
    << << "C", Zero3 >>, << "H", << 0, 1, 1 >> >> >>,
    << << "a", 0, 1, "S" >>,
       << "c", 0, 0, "S" >>, << "c", 1, 0, "S" >>,
       << "c", 2, 0, "S" >>, << "c", 3, 0, "S" >> >>,
    << >>, Zero3)

\* an end cap E (the metal), a unit U whose point a joins another U's point
\* b by their special/constraint tags, and a unit V that joins nothing
PolymerCap ==
  BuildingUnit("E", TRUE,
    << ConnectPoint(0, Xp, Xp, Yp, 1, None) >>,
    << << "Zn", Zero3 >> >>,
    << << "c", 0, 0, "S" >> >>,
    << << 0, 5 >> >>, Zero3)

PolymerUnit ==
  BuildingUnit("U", FALSE,
    << ConnectPoint(0, Xm, Xm, Yp, 1, << 5 >>),
       ConnectPoint(1, Xp, Xp, Yp, 1, None) >>,
    << << "C", Xm >>, << "C", Zero3 >> >>,
    << << "a", 0, 1, "S" >>, << "c", 0, 0, "S" >>, << "c", 1, 1, "S" >> >>,
    << << 1, 5 >> >>, Zero3)

InertUnit ==
  BuildingUnit("V", FALSE,
    << ConnectPoint(0, Xp, Xp, Yp, 1, << 8 >>) >>,
    << << "C", Zero3 >> >>,
    << << "c", 0, 0, "S" >> >>,
    << << 0, 9 >> >>, Zero3)

\* a metal comb with three parallel points of different symmetry and a
\* one-point cap
CombMetal ==
  BuildingUnit("T", TRUE,
    << ConnectPoint(0, << 1, 0, 0 >>, Xp, Yp, 1, None),
       ConnectPoint(1, << 1, 3, 0 >>, Xp, Yp, 2, None),
       ConnectPoint(2, << 1, 6, 0 >>, Xp, Yp, 3, None) >>,
    << << "Zn", Zero3 >>, << "Zn", << 0, 3, 0 >> >>, << "Zn", << 0, 6, 0 >> >> >>,
    << << "a", 0, 1, "S" >>, << "a", 1, 2, "S" >>,
       << "c", 0, 0, "S" >>, << "c", 1, 1, "S" >>, << "c", 2, 2, "S" >> >>,
    << >>, << 0, 3, 0 >>)

CapLinker ==
  BuildingUnit("K", FALSE,
    << ConnectPoint(0, Xm, Xm, Yp, 1, None) >>,
    << << "C", Zero3 >> >>,
    << << "c", 0, 0, "S" >> >>,
    << >>, Zero3)

\* the cubic pair with a fifth point each; the fifth points face each
\* other at a displacement that is no lattice translation
CubicPlusMetal ==
  BuildingUnit("M5", TRUE,
    << ConnectPoint(0, Xp, Xp, Yp, 1, None),
       ConnectPoint(1, Yp, Yp, Zp, 1, None),
       ConnectPoint(2, Zp, Zp, Xp, 1, None),
       ConnectPoint(3, Xm, Xm, Yp, 1, None),
       ConnectPoint(4, Ym, Ym, Xp, 1, None) >>,
    << << "Zn", Zero3 >> >>,
    << << "c", 0, 0, "S" >>, << "c", 1, 0, "S" >>, << "c", 2, 0, "S" >>,
       << "c", 3, 0, "S" >>, << "c", 4, 0, "S" >> >>,
    << >>, Zero3)

CubicPlusLinker ==
  BuildingUnit("L5", FALSE,
    << ConnectPoint(0, Xm, Xm, Yp, 1, None),
       ConnectPoint(1, Ym, Ym, Zp, 1, None),
       ConnectPoint(2, Zm, Zm, Xp, 1, None),
       ConnectPoint(3, Xp, Xp, Yp, 1, None),
       ConnectPoint(4, << 0, 2, 0 >>, Yp, Xp, 1, None) >>,
    << << "C", Zero3 >> >>,
    << << "c", 0, 0, "S" >>, << "c", 1, 0, "S" >>, << "c", 2, 0, "S" >>,
       << "c", 3, 0, "S" >>, << "c", 4, 0, "S" >> >>,
    << >>, Zero3)

\* a metal with two opposite points and a linker with two opposite ends:
\* joined, the two free ends close a chain
ChainMetal ==
  BuildingUnit("M2", TRUE,
    << ConnectPoint(0, Xp, Xp, Yp, 1, None),
       ConnectPoint(1, Xm, Xm, Yp, 1, None) >>,
    << << "Zn", Zero3 >> >>,
    << << "c", 0, 0, "S" >>, << "c", 1, 0, "S" >> >>,
    << >>, Zero3)

ChainLinker ==
  BuildingUnit("L2", FALSE,
    << ConnectPoint(0, Xm, Xm, Yp, 1, None),
       ConnectPoint(1, Xp, Xp, Yp, 1, None) >>,
    << << "C", Xm >>, << "C", Xp >> >>,
    << << "a", 0, 1, "S" >>, << "c", 0, 0, "S" >>, << "c", 1, 1, "S" >> >>,
    << >>, Zero3)

\* two units joined at their first points whose second points face each
\* other along +x and whose third points face each other along -x
LadderMetal ==
  BuildingUnit("MA", TRUE,
    << ConnectPoint(0, Xp, Xp, Yp, 1, None),
       ConnectPoint(1, Xm, Xm, Yp, 1, None),
       ConnectPoint(2, << 1, 1, 0 >>, Xp, Yp, 1, None) >>,
    << << "Zn", Zero3 >> >>,
    << << "c", 0, 0, "S" >>, << "c", 1, 0, "S" >>, << "c", 2, 0, "S" >> >>,
    << >>, Zero3)

LadderLinker ==
  BuildingUnit("LA", FALSE,
    << ConnectPoint(0, Xm, Xm, Yp, 1, None),
       ConnectPoint(1, Xp, Xp, Yp, 1, None),
       ConnectPoint(2, << -3, 1, 0 >>, Xm, Yp, 1, None) >>,
    << << "C", Zero3 >> >>,
    << << "c", 0, 0, "S" >>, << "c", 1, 0, "S" >>, << "c", 2, 0, "S" >> >>,
    << >>, Zero3)

\* the chain linker with a third atom, bonded to the first, that lies one
\* unit beyond the second end: once the chain is closed it sits on the
\* periodic image of the metal's atom
TailLinker ==
  BuildingUnit("LT", FALSE,
    << ConnectPoint(0, Xm, Xm, Yp, 1, None),
       ConnectPoint(1, Xp, Xp, Yp, 1, None) >>,
    << << "C", Xm >>, << "C", Xp >>, << "H", << 2, 0, 0 >> >> >>,
    << << "a", 0, 1, "S" >>, << "a", 0, 2, "S" >>,
       << "c", 0, 0, "S" >>, << "c", 1, 1, "S" >> >>,
    << >>, Zero3)

\* the chain metal as an input record that gives both points the index 0
TwinMetal ==
  BuildingUnit("MT", TRUE,
    << ConnectPoint(0, Xp, Xp, Yp, 1, None),
       ConnectPoint(0, Xm, Xm, Yp, 1, None) >>,
    << << "Zn", Zero3 >> >>,
    << << "c", 0, 0, "S" >>, << "c", 1, 0, "S" >> >>,
    << >>, Zero3)

Catalogs ==
  { << CubicMetal, CubicLinker >>,
    << TwinMetal, ChainLinker >>,
    << ChainMetal, TailLinker >>,
    << CubicPlusMetal, CubicPlusLinker >>,
    << ChainMetal, ChainLinker >>,
    << LadderMetal, LadderLinker >>,
    << PolymerCap, PolymerUnit, InertUnit >>,
    << CombMetal, CapLinker >>,
    << ChainLinker >> }

(***************************************************************************)
(* Generate.exhaustive_sampling                                            *)
(***************************************************************************)
VARIABLES
  pc,          \* the statement exhaustive_sampling is at
  blocks,      \* the local instance of bu_db
  structures,  \* the current frontier
  add_list,    \* the next frontier
  symtrack,    \* sym_ids appended this generation
  sid,         \* position of struct in structures (the for loop, 1-based)
  bondlist,    \* gen_bondlist's result for struct
  bid,         \* position of bond in bondlist (1-based)
  newstruct,   \* the copy being worked on
  new_id,      \* its candidate sym_id
  bondtab,     \* the global bond table list objects, by identity
  emitted,     \* the structure handed to the CIF writer, or None
  gen,         \* generations begun (history)
  total,       \* structures ever put in a frontier, the seed included (history)
  vb_cp,       \* bond-compatibility specification: the first point
  vb_cp2,      \* the second point
  vb_done,     \* whether the functions have been applied
  vb_result,   \* their results
  fn_call,     \* function specification: the function called and its arguments
  fn_done,     \* whether it has been applied
  fn_ret       \* what it returned

bvars == << vb_cp, vb_cp2, vb_done, vb_result, fn_call, fn_done, fn_ret >>

svars == << pc, blocks, structures, add_list, symtrack, sid, bondlist, bid,
            newstruct, new_id, bondtab, emitted, gen, total >>

\* lines 963-973: the local copy of bu_db with internal_index and the
\* points' bu_order set to the position in blocks (no catalog here holds
\* specialbu variants)
Blocks(bu_db) ==
  [ id \in 1..Len(bu_db) |->
      [ bu_db[id] EXCEPT
          !.internal_index = id - 1,
          !.connect_points =
             [ c \in 1..Len(bu_db[id].connect_points) |->
                 [ bu_db[id].connect_points[c] EXCEPT !.bu_order = id - 1 ] ] ] ]

\* Generate.random_insert for the unit choice() returned: the seed structure
\* and its bond table
random_insert(bu0, table_id) ==
  LET bu == [ bu0 EXCEPT
                !.order = 0,
                !.atoms = [ i \in 1..Len(bu0.atoms) |->
                              [ bu0.atoms[i] EXCEPT !.index = i - 1 ] ],
                !.connect_points =
                   [ c \in 1..Len(bu0.connect_points) |->
                       [ bu0.connect_points[c] EXCEPT !.bu_order = 0 ] ] ]
      seed == [ Structure(table_id) EXCEPT
                  !.building_units = << bu >>,
                  !.natoms = Len(bu0.atoms) ]
  IN  [ s |-> seed, tab |-> AtomBondRows(bu, Len(bu.bonds)) ]

\* Generate.gen_bondlist(bonds, newbonds): the compatible pairs of
\* itertools.product, each <<point of struct, point of blocks>>
gen_bondlist(struct, blks) ==
  LET bonds == ConnectPts(struct.building_units, Len(struct.building_units))
      newbonds == ConnectPts(blks, Len(blks))
      m == Len(newbonds)
      product == [ k \in 1..(Len(bonds) * m) |->
                     << bonds[((k - 1) \div m) + 1], newbonds[((k - 1) % m) + 1] >> ]
  IN  SelectSeq(product,
        LAMBDA bp : spec_compatible(
                      struct.building_units[bp[1][1]].connect_points[bp[1][2]],
                      blks[bp[2][1]].connect_points[bp[2][2]]))

InSeq(x, seq) == \E k \in 1..Len(seq) : seq[k] = x

\* the struct's point and the catalog point of the current candidate
Bond0 == structures[sid].building_units[bondlist[bid][1][1]]
           .connect_points[bondlist[bid][1][2]]
Bond1 == blocks[bondlist[bid][2][1]].connect_points[bondlist[bid][2][2]]

SearchInit ==
  /\ pc = "random_insert"
  /\ blocks \in { Blocks(db) : db \in Catalogs }
  /\ structures = << >>
  /\ add_list = << >>
  /\ symtrack = << >>
  /\ sid = 0
  /\ bondlist = << >>
  /\ bid = 0
  /\ newstruct = None
  /\ new_id = << >>
  /\ bondtab = << >>
  /\ emitted = None
  /\ gen = 0
  /\ total = 0
  /\ vb_cp = None
  /\ vb_cp2 = None
  /\ vb_done = FALSE
  /\ vb_result = None
  /\ fn_call = None
  /\ fn_done = FALSE
  /\ fn_ret = None

\* line 979: structures = self.random_insert(blocks)
Seed ==
  /\ pc = "random_insert"
  /\ \E b \in 1..Len(blocks) :
       LET r == random_insert(blocks[b], 1)
       IN  /\ structures' = << r.s >>
           /\ bondtab' = << r.tab >>
  /\ pc' = "while"
  /\ total' = 1
  /\ UNCHANGED << blocks, add_list, symtrack, sid, bondlist, bid, newstruct,
                  new_id, emitted, gen >>
  /\ UNCHANGED bvars

\* lines 982-986: a generation begins
BeginGeneration ==
  /\ pc = "while"
  /\ gen < MaxGen
  /\ add_list' = << >>
  /\ symtrack' = << >>
  /\ sid' = 1
  /\ gen' = gen + 1
  /\ pc' = "for_struct"
  /\ UNCHANGED << blocks, structures, bondlist, bid, newstruct, new_id,
                  bondtab, emitted, total >>
  /\ UNCHANGED bvars

\* lines 987-997: the next struct of the frontier and its bondlist
NextStruct ==
  /\ pc = "for_struct"
  /\ IF sid <= Len(structures)
     THEN /\ bondlist' = gen_bondlist(structures[sid], blocks)
          /\ bid' = 1
          /\ pc' = "for_bond"
     ELSE /\ pc' = "after_for"
          /\ UNCHANGED << bondlist, bid >>
  /\ UNCHANGED << blocks, structures, add_list, symtrack, sid, newstruct,
                  new_id, bondtab, emitted, gen, total >>
  /\ UNCHANGED bvars

\* lines 998-1013: the next bond of bondlist: copy struct, build new_id
CopyStruct ==
  /\ pc = "for_bond"
  /\ IF bid <= Len(bondlist)
     THEN IF CopyFails(structures[sid])
          THEN /\ pc' = "IndexError"
               /\ UNCHANGED << newstruct, new_id, sid >>
          ELSE LET ns == StructureCopy(structures[sid])
                   cbu == ns.building_units[Bond0.bu_order + 1]
                   cbond == cbu.connect_points[Bond0.order + 1]
                   add_bu == blocks[Bond1.bu_order + 1]
                   add_bond == add_bu.connect_points[Bond1.order + 1]
                   add_sym == get_symmetry_info(cbu, cbond, add_bu, add_bond)
               IN  /\ newstruct' = ns
                   /\ new_id' = Append(ns.sym_id, add_sym)
                   /\ pc' = "copied"
                   /\ UNCHANGED sid
     ELSE /\ sid' = sid + 1
          /\ pc' = "for_struct"
          /\ UNCHANGED << newstruct, new_id >>
  /\ UNCHANGED << blocks, structures, add_list, symtrack, bondlist, bid,
                  bondtab, emitted, gen, total >>
  /\ UNCHANGED bvars

\* a search that never finds a candidate redundant
Redundant_never == FALSE

\* line 1015
Redundant == InSeq(new_id, symtrack)

\* lines 1015-1024: skip a redundant candidate, insert the others
InsertUnit ==
  /\ pc = "copied"
  /\ IF Redundant
     THEN /\ bid' = bid + 1
          /\ pc' = "for_bond"
          /\ UNCHANGED << newstruct, bondtab >>
     ELSE LET bu == Bond0.bu_order + 1
              w == insert([ s |-> newstruct, tab |-> bondtab[newstruct.bonds] ],
                          bu, << bu, Bond0.order + 1 >>,
                          blocks[Bond1.bu_order + 1], Bond1.order + 1)
          IN  /\ newstruct' = w.s
              /\ bondtab' = [ bondtab EXCEPT ![newstruct.bonds] = w.tab ]
              /\ pc' = IF w.s.cell.index > 3 THEN "IndexError" ELSE "inserted"
              /\ UNCHANGED bid
  /\ UNCHANGED << blocks, structures, add_list, symtrack, sid, bondlist,
                  new_id, emitted, gen, total >>
  /\ UNCHANGED bvars

\* an emission test that ignores the cell
Finished_any_cell(s) == saturated(s)

\* line 1026-1027
Finished(s) == saturated(s) /\ s.cell.index = 3

\* lines 1025-1040: emit, keep or drop the candidate
Judge ==
  /\ pc = "inserted"
  /\ IF ~overlap_bu(newstruct, Len(newstruct.building_units))
     THEN IF Finished(newstruct)
          THEN /\ emitted' = newstruct
               /\ pc' = "emitted"
               /\ UNCHANGED << add_list, symtrack, newstruct, total >>
          ELSE /\ newstruct' = [ newstruct EXCEPT !.sym_id = new_id ]
               /\ add_list' = Append(add_list, newstruct')
               /\ symtrack' = Append(symtrack, new_id)
               /\ total' = total + 1
               /\ pc' = "cap_check"
               /\ UNCHANGED emitted
     ELSE /\ pc' = "cap_check"
          /\ UNCHANGED << add_list, symtrack, newstruct, emitted, total >>
  /\ UNCHANGED << blocks, structures, sid, bondlist, bid, new_id, bondtab, gen >>
  /\ UNCHANGED bvars

\* line 1041
OverCap == Len(add_list) + Len(structures) > StructureCap

\* lines 1041-1045
CapCheck ==
  /\ pc = "cap_check"
  /\ IF OverCap
     THEN /\ pc' = "capped"
          /\ UNCHANGED bid
     ELSE /\ bid' = bid + 1
          /\ pc' = "for_bond"
  /\ UNCHANGED << blocks, structures, add_list, symtrack, sid, bondlist,
                  newstruct, new_id, bondtab, emitted, gen, total >>
  /\ UNCHANGED bvars

\* an exhaustion test that also fires with one structure left
NoNewCombinations_one_left == Len(add_list) <= 1

\* line 1046: if not add_list
NoNewCombinations == add_list = << >>

\* lines 1046-1053
EndGeneration ==
  /\ pc = "after_for"
  /\ IF NoNewCombinations
     THEN /\ pc' = "exhausted"
          /\ UNCHANGED structures
     ELSE /\ structures' = add_list
          /\ pc' = "while"
  /\ UNCHANGED << blocks, add_list, symtrack, sid, bondlist, bid, newstruct,
                  new_id, bondtab, emitted, gen, total >>
  /\ UNCHANGED bvars

SearchNext ==
  \/ Seed
  \/ BeginGeneration
  \/ NextStruct
  \/ CopyStruct
  \/ InsertUnit
  \/ Judge
  \/ CapCheck
  \/ EndGeneration

vars == << svars, bvars >>

Spec == SearchInit /\ [][SearchNext]_vars

(***************************************************************************)
(* Bond compatibility on its own: valid_bond and spec_compatible applied   *)
(* to every pair of connection points over the tags None, 1 .. TagMax.     *)
(***************************************************************************)
Tags == { None } \cup { << t >> : t \in 1..TagMax }

\* the connection points as the two functions see them: special,
\* constraint, bonded and the metal flag of the owning unit
BondPoints ==
  { [ ConnectPoint(0, Zero3, Xp, Yp, 1, sp) EXCEPT
        !.constraint = c, !.bonded = b, !.metal = m ] :
      sp \in Tags, c \in Tags, b \in BOOLEAN, m \in BOOLEAN }

\* the unit owning a point, as far as valid_bond reads it
OwnerOf(point) == [ metal |-> point.metal ]

BondInit ==
  /\ vb_cp \in BondPoints
  /\ vb_cp2 \in BondPoints
  /\ vb_done = FALSE
  /\ vb_result = None
  /\ fn_call = None
  /\ fn_done = FALSE
  /\ fn_ret = None
  /\ pc = "idle"
  /\ blocks = << >>
  /\ structures = << >>
  /\ add_list = << >>
  /\ symtrack = << >>
  /\ sid = 0
  /\ bondlist = << >>
  /\ bid = 0
  /\ newstruct = None
  /\ new_id = << >>
  /\ bondtab = << >>
  /\ emitted = None
  /\ gen = 0
  /\ total = 0

\* valid_bond in both argument orders and spec_compatible, on the pair
TestBond ==
  /\ ~vb_done
  /\ vb_done' = TRUE
  /\ vb_result' =
       [ forward  |-> valid_bond(OwnerOf(vb_cp), vb_cp, OwnerOf(vb_cp2), vb_cp2),
         backward |-> valid_bond(OwnerOf(vb_cp2), vb_cp2, OwnerOf(vb_cp), vb_cp),
         listed   |-> spec_compatible(vb_cp, vb_cp2) ]
  /\ UNCHANGED << vb_cp, vb_cp2, fn_call, fn_done, fn_ret, svars >>

BondNext == TestBond

SpecBond == BondInit /\ [][BondNext]_vars

(***************************************************************************)
(* Single functions on their own: a call is drawn from the argument sets   *)
(* below and the function is applied to it.                                *)
(***************************************************************************)
\* the search and the bond-compatibility variables, at rest
SearchIdle ==
  /\ pc = "idle"
  /\ blocks = << >>
  /\ structures = << >>
  /\ add_list = << >>
  /\ symtrack = << >>
  /\ sid = 0
  /\ bondlist = << >>
  /\ bid = 0
  /\ newstruct = None
  /\ new_id = << >>
  /\ bondtab = << >>
  /\ emitted = None
  /\ gen = 0
  /\ total = 0
  /\ vb_cp = None
  /\ vb_cp2 = None
  /\ vb_done = FALSE
  /\ vb_result = None

\* a unit with one connect point and no atoms, as the label functions
\* read it: internal_index and the point's symmetry flag
LabelUnit(internal_index, symmetry) ==
  [ BuildingUnit("X", FALSE,
                 << ConnectPoint(0, Zero3, << 1, 0, 0 >>, << 0, 1, 0 >>,
                                 symmetry, None) >>,
                 << >>, << >>, << >>, Zero3)
      EXCEPT !.internal_index = internal_index ]

\* get_symmetry_info(bu, cp, add_bu, add_cp) for units at positions
\* 0 .. IndexMax of blocks and symmetry flags 1 .. SymmetryMax
LabelCalls ==
  { [ fn |-> "get_symmetry_info", bu |-> LabelUnit(i, x),
      add_bu |-> LabelUnit(j, y) ] :
      i \in 0..IndexMax, j \in 0..IndexMax,
      x \in 1..SymmetryMax, y \in 1..SymmetryMax }

\* the label in both argument orders, and the bond_label
\* update_connectivities stores on the two points when they are bonded
CallSymmetry ==
  /\ ~fn_done
  /\ fn_call.fn = "get_symmetry_info"
  /\ LET bu == fn_call.bu
         add_bu == [ fn_call.add_bu EXCEPT
                       !.order = 1, !.connect_points[1].bu_order = 1 ]
         w == [ s |-> [ Structure(1) EXCEPT !.building_units = << bu, add_bu >> ],
                tab |-> << >> ]
         w1 == update_connectivities(w, 1, << 1, 1 >>, 2, << 2, 1 >>)
     IN  fn_ret' =
           [ forward  |-> get_symmetry_info(bu, bu.connect_points[1],
                                            add_bu, add_bu.connect_points[1]),
             backward |-> get_symmetry_info(add_bu, add_bu.connect_points[1],
                                            bu, bu.connect_points[1]),
             label    |-> w1.s.building_units[1].connect_points[1].bond_label,
             add_label |-> w1.s.building_units[2].connect_points[1].bond_label ]
  /\ fn_done' = TRUE
  /\ UNCHANGED << fn_call, vb_cp, vb_cp2, vb_done, vb_result, svars >>

\* the six grid directions and a direction perpendicular to each
Directions == { Xp, Xm, Yp, Ym, Zp, Zm }
PerpOf(d) == IF d[1] # 0 THEN Yp ELSE Xp

\* a unit with one atom and one connect point at position at, with
\* parallel vector para, and centre of mass com
SnapUnit(at, para, com) ==
  BuildingUnit("S", FALSE,
               << ConnectPoint(0, at, para, PerpOf(para), 1, None) >>,
               << << "C", Zero3 >> >>, << << "c", 0, 0, "S" >> >>, << >>, com)

\* snap_to(self_point, connect_point) for every pair of directions of the
\* two parallel vectors
SnapCalls ==
  { [ fn |-> "snap_to", bu |-> SnapUnit(at, para, com),
      connect_point |-> ConnectPoint(0, to, tpara, PerpOf(tpara), 1, None) ] :
      at \in { Xp, << 1, 1, 0 >> }, para \in Directions,
      com \in { Zero3, << 0, 1, 0 >> },
      to \in { Xm, << 0, 2, 1 >> }, tpara \in Directions }

CallSnapTo ==
  /\ ~fn_done
  /\ fn_call.fn = "snap_to"
  /\ fn_ret' = snap_to(fn_call.bu, 1, fn_call.connect_point, FALSE)
  /\ fn_done' = TRUE
  /\ UNCHANGED << fn_call, vb_cp, vb_cp2, vb_done, vb_result, svars >>

\* cells with 0, 1, 2 and 3 accepted vectors, built by add_vector
CellOf(vectors) ==
  LET F[k \in 0..Len(vectors)] ==
        IF k = 0 THEN NewCell ELSE add_vector(F[k - 1], vectors[k], Zero3)
  IN  F[Len(vectors)]

ShiftLattices ==
  { << >>,
    << << 4, 0, 0 >> >>,
    << << 1, 2, 0 >> >>,
    << << 2, 0, 0 >>, << 0, 3, 0 >> >>,
    << << 2, 0, 0 >>, << 1, 2, 0 >> >>,
    << << 1, 1, 0 >>, << 0, 1, 2 >> >>,
    << << 2, 0, 0 >>, << 0, 2, 0 >>, << 0, 0, 2 >> >>,
    << << 2, 0, 0 >>, << 1, 2, 0 >>, << 1, 1, 2 >> >>,
    << << 3, 0, 0 >>, << 0, 1, 2 >>, << 0, -1, 2 >> >> }

\* periodic_shift(vector) on these cells
ShiftCalls ==
  { [ fn |-> "periodic_shift", cell |-> CellOf(l), vector |-> << x, y, z >> ] :
      l \in ShiftLattices,
      x \in -ShiftRange..ShiftRange, y \in -ShiftRange..ShiftRange,
      z \in -ShiftRange..ShiftRange }

\* periodic_shift applied once, and again to its result
CallPeriodicShift ==
  /\ ~fn_done
  /\ fn_call.fn = "periodic_shift"
  /\ LET once == periodic_shift(fn_call.cell, fn_call.vector)
     IN  fn_ret' = [ once |-> once,
                     twice |-> periodic_shift(fn_call.cell, once) ]
  /\ fn_done' = TRUE
  /\ UNCHANGED << fn_call, vb_cp, vb_cp2, vb_done, vb_result, svars >>

FnInit ==
  /\ SearchIdle
  /\ fn_done = FALSE
  /\ fn_ret = None
  /\ \/ fn_call \in LabelCalls
     \/ fn_call \in SnapCalls
     \/ fn_call \in ShiftCalls

FnNext ==
  \/ CallSymmetry
  \/ CallSnapTo
  \/ CallPeriodicShift

SpecFn == FnInit /\ [][FnNext]_vars

(***************************************************************************)
(* Properties of the search                                                *)
(***************************************************************************)
\* a structure with its global bond table read through the list it holds
Resolved(s) == [ s EXCEPT !.bonds = bondtab[s.bonds] ]

\* the struct being expanded, the frontier and the next frontier, each
\* with the bond table it sees
ParentView == IF pc \in { "copied", "inserted" }
              THEN Resolved(structures[sid]) ELSE None
FrontierView == [ k \in 1..Len(structures) |-> Resolved(structures[k]) ]
NextFrontierView == [ k \in 1..Len(add_list) |-> Resolved(add_list[k]) ]

\* C1: a structure is emitted only if every connection point of it is
\* bonded, its cell holds three lattice vectors and the unit inserted last
\* passed the overlap check; emission happens only in the search's last
\* step, after which nothing is copied, inserted or added.
C1_EmittedIsFinished ==
  /\ [](emitted # None =>
          /\ pc = "emitted"
          /\ saturated(emitted)
          /\ emitted.cell.index = 3
          /\ ~overlap_bu(emitted, Len(emitted.building_units)))
  /\ [][pc # "emitted"]_vars

C1_Emitted ==
  /\ pc = "emitted"
  /\ emitted # None
  /\ Len(emitted.building_units) = 2

\* C2: copying a structure and inserting a unit into the copy leaves the
\* structure copied from, the frontier and the next frontier as they
\* were, their global bond tables and sym_ids included.
C2_InsertLeavesOthersUnchanged ==
  [][ (pc = "copied" /\ pc' = "inserted") =>
        /\ ParentView' = ParentView
        /\ FrontierView' = FrontierView
        /\ NextFrontierView' = NextFrontierView ]_vars

\* C3: at the end of every generation (and at every point of it) no two
\* structures of the next frontier carry the same sym_id.
C3_NextFrontierLabelsDistinct ==
  \A i, j \in 1..Len(add_list) :
    i # j => add_list[i].sym_id # add_list[j].sym_id

C3_GenerationEndedWithSeveral ==
  /\ pc = "after_for"
  /\ Len(add_list) >= 2

\* C4: the structures that survived are counted over the whole run, and as
\* soon as that count exceeds the cap the search is at its cap test or
\* has stopped there, without emitting.
C4_CumulativeCountStops ==
  total > StructureCap => (pc \in { "cap_check", "capped" } /\ emitted = None)

\* what line 1041 does bound: the search stops by the cap exactly when the
\* current frontier and the next frontier together hold more than the cap
FrontierCountStops ==
  /\ pc = "capped" =>
       /\ Len(add_list) + Len(structures) > StructureCap
       /\ emitted = None
  /\ pc \in { "for_struct", "for_bond", "copied", "inserted", "after_for" } =>
       Len(add_list) + Len(structures) <= StructureCap

\* C5: the cap bounds the run, so no execution expands generation after
\* generation without end: a generation that does not end the search puts
\* at least one structure in the next frontier, so a run bounded by the
\* cap begins at most StructureCap + 1 generations.
C5_CapBoundsTheRun == gen <= StructureCap + 1

\* C6: the search stops by exhaustion exactly when a generation expanded
\* every structure of the frontier and left the next frontier empty;
\* never while the next frontier holds a structure, and without emitting.
C6_ExhaustedIffEmptyFrontier ==
  /\ [](pc = "exhausted" =>
          /\ add_list = << >>
          /\ sid > Len(structures)
          /\ emitted = None)
  /\ [][ pc = "after_for" => (pc' = "exhausted" <=> add_list = << >>) ]_vars
  /\ [][ pc' = "exhausted" => pc = "after_for" ]_vars

C6_ExhaustedAfterGrowth ==
  /\ pc = "exhausted"
  /\ gen >= 2
  /\ Len(structures) >= 1

\* every structure the search holds
Held ==
  { structures[k] : k \in 1..Len(structures) }
    \cup { add_list[k] : k \in 1..Len(add_list) }
    \cup (IF newstruct = None THEN { } ELSE { newstruct })

\* the pairs of connection points of s that pass bonding's test without
\* being a local bond: the pairs bonding hands to valid_vector
VectorCandidates(s) ==
  LET pts == ConnectPts(s.building_units, Len(s.building_units))
  IN  { pr \in (1..Len(pts)) \X (1..Len(pts)) :
          /\ pr[1] < pr[2]
          /\ BondTest(s, pts[pr[1]], pts[pr[2]])
          /\ ~NearZero(periodic_shift(s.cell,
                VSub(s.building_units[pts[pr[2]][1]]
                       .connect_points[pts[pr[2]][2]].coordinates,
                     s.building_units[pts[pr[1]][1]]
                       .connect_points[pts[pr[1]][2]].coordinates))) }

Displacement(s, pr) ==
  LET pts == ConnectPts(s.building_units, Len(s.building_units))
  IN  VSub(s.building_units[pts[pr[2]][1]].connect_points[pts[pr[2]][2]]
             .coordinates,
           s.building_units[pts[pr[1]][1]].connect_points[pts[pr[1]][2]]
             .coordinates)

\* C7: the number of accepted lattice vectors of a cell is always one of
\* 0, 1, 2, 3, and once it is 3 valid_vector is false for every further
\* candidate displacement.
C7_AtMostThreeVectors ==
  \A s \in Held :
    /\ s.cell.index \in 0..3
    /\ s.cell.index = 3 =>
         \A pr \in VectorCandidates(s) :
           ~valid_vector(s.cell, Displacement(s, pr))

C7_FourthCandidateRejected ==
  /\ pc = "inserted"
  /\ newstruct.cell.index = 3
  /\ VectorCandidates(newstruct) # { }

Det3(m) == Dot(m[1], Cross(m[2], m[3]))

\* the accepted lattice vectors of a cell are linearly independent
Independent(cell) ==
  /\ cell.index >= 1 => cell.lattice[1] # Zero3
  /\ cell.index >= 2 => Cross(cell.lattice[1], cell.lattice[2]) # Zero3
  /\ cell.index >= 3 => Det3(cell.lattice) # 0

\* C8: the accepted lattice vectors of every cell are linearly
\* independent: no accepted vector is a multiple, positive or negative,
\* of another, and a third lies outside the plane of the first two.
C8_VectorsIndependent == \A s \in Held : Independent(s.cell)

\* C9: valid_bond gives the same answer for a pair of connection points in
\* either argument order.
C9_ValidBondSymmetric ==
  vb_done => vb_result.forward = vb_result.backward

\* C10: for an unbonded point of a structure and an unbonded catalog
\* point, spec_compatible lists the pair exactly when valid_bond accepts
\* it.
C10_ListedIffValid ==
  (vb_done /\ ~vb_cp.bonded /\ ~vb_cp2.bonded) =>
    vb_result.listed = vb_result.forward

\* the unit the candidate just inserted into newstruct, and its original
\* in blocks
InsertedUnit == newstruct.building_units[Len(newstruct.building_units)]
AddedBlock == blocks[Bond1.bu_order + 1]

\* C12: insert of a unit with m atoms into a structure of n atoms gives
\* the unit's atoms the indices n .. n+m-1, adds n to every index in
\* those atoms' bond lists (the intra-unit references the unit came with)
\* and sets natoms to n+m.
C12_InsertOffsetsIndices ==
  pc = "inserted" =>
    LET n == structures[sid].natoms
        m == Len(AddedBlock.atoms)
    IN  /\ newstruct.natoms = n + m
        /\ \A i \in 1..m :
             /\ InsertedUnit.atoms[i].index = n + i - 1
             /\ \A k \in 1..Len(AddedBlock.atoms[i].bonds) :
                  InsertedUnit.atoms[i].bonds[k]
                    = AddedBlock.atoms[i].bonds[k] + n

\* the index of every atom of s, unit by unit
AtomIndices(s) ==
  [ u \in 1..Len(s.building_units) |->
      [ i \in 1..Len(s.building_units[u].atoms) |->
          s.building_units[u].atoms[i].index ] ]

\* the atoms of s, in the order of the units, carry 0, 1, .. natoms-1
IndexedInOrder(s) ==
  LET all == FlatAtoms(s.building_units, Len(s.building_units))
  IN  /\ Len(all) = s.natoms
      /\ \A k \in 1..Len(all) :
           s.building_units[all[k][1]].atoms[all[k][2]].index = k - 1

\* C13: in every structure the atoms' indices are pairwise distinct and
\* exactly 0 .. natoms-1, natoms is the number of atoms of the placed
\* units, and an atom keeps its index through copies and later insertions.
C13_AtomIndicesUniqueAndStable ==
  /\ [](\A s \in Held : IndexedInOrder(s))
  /\ [][ (pc = "for_bond" /\ pc' = "copied") =>
           AtomIndices(newstruct') = AtomIndices(structures[sid]) ]_vars
  /\ [][ (pc = "copied" /\ pc' \in { "inserted", "IndexError" }) =>
           \A u \in 1..Len(newstruct.building_units) :
             AtomIndices(newstruct')[u] = AtomIndices(newstruct)[u] ]_vars
  /\ [][ (pc = "inserted" /\ pc' = "cap_check" /\ Len(add_list') > Len(add_list)) =>
           AtomIndices(add_list'[Len(add_list')]) = AtomIndices(newstruct) ]_vars

C13_CopyOfGrownStructure ==
  /\ pc = "inserted"
  /\ Len(structures[sid].building_units) >= 2
  /\ newstruct.natoms >= 4

\* the catalog holds only non-metal units whose points have no special tag
OnlyPlainLinkers ==
  /\ blocks # << >>
  /\ \A b \in 1..Len(blocks) :
       /\ ~blocks[b].metal
       /\ \A c \in 1..Len(blocks[b].connect_points) :
            blocks[b].connect_points[c].special = None

ChainCatalog == blocks = Blocks(<< ChainMetal, ChainLinker >>)

\* C15: on the chain catalog the search reaches, before the cap, a
\* structure whose cell holds exactly 1 lattice vector, and no structure
\* with 2 or 3 vectors before it: the first unit inserted closes the chain
\* (cell.index = 1), from then on a structure with cell.index = 1 is held,
\* no held structure has more than 1 vector, and the run does not stop at
\* the cap.
C15_ChainFoundFirst ==
  ChainCatalog =>
    /\ \A s \in Held : s.cell.index <= 1
    /\ pc = "inserted" => newstruct.cell.index = 1
    /\ total >= 2 => \E s \in Held : s.cell.index = 1
    /\ pc \in { "exhausted", "capped", "emitted", "IndexError" } =>
         /\ pc # "capped"
         /\ \E s \in Held : s.cell.index = 1

C15_ChainFound ==
  /\ ChainCatalog
  /\ pc = "inserted"
  /\ gen = 1
  /\ newstruct.cell.index = 1
  /\ newstruct.cell.lattice[1] = << 4, 0, 0 >>

\* the atoms the i-th atom of the inserted unit is bonded to, as positions
\* in the flat atom list: its neighbours inside the unit (the unit's own
\* bond table, which numbers the atoms from 0 inside the unit) and the
\* atoms update_connectivities bonded it to
BondedTo(i) ==
  LET base == structures[sid].natoms
      own == AddedBlock.atoms[i].bonds
      now == InsertedUnit.atoms[i].bonds
  IN  { base + own[k] + 1 : k \in 1..Len(own) }
        \cup { now[k] + 1 : k \in (Len(own) + 1)..Len(now) }

\* some atom of the inserted unit and some other atom, neither itself nor
\* bonded to it, are closer than the scaled sum of their radii
UnbondedPairTooClose ==
  LET s == newstruct
      all == FlatAtoms(s.building_units, Len(s.building_units))
      base == structures[sid].natoms
  IN  \E i \in 1..Len(InsertedUnit.atoms) :
        \E n \in 1..Len(all) :
          LET atom == InsertedUnit.atoms[i]
              obu == s.building_units[all[n][1]]
              other == obu.atoms[all[n][2]]
              coords == atom_min_img_shift(s.cell, atom.coordinates,
                                           other.coordinates)
          IN  /\ n # base + i
              /\ n \notin BondedTo(i)
              /\ ~InsertedUnit.nan /\ ~obu.nan
              /\ Closer(Len2(VSub(atom.coordinates, coords)),
                        atom.element, other.element, 4, 1000)

\* C18: overlap_bu of the inserted unit is true exactly when some atom of
\* the unit and some other atom, neither itself nor bonded to it, lie at
\* a minimum-image distance strictly below the scaled sum of their radii.
C18_OverlapIffUnbondedPairTooClose ==
  pc = "inserted" =>
    (overlap_bu(newstruct, Len(newstruct.building_units))
       <=> UnbondedPairTooClose)

\* some lookup by index of Structure.__copy__ (an atom among all atoms, a
\* point among its unit's points) finds no match or several
LookupNotUnique(s) ==
  \E u \in 1..Len(s.building_units) :
    \/ \E i \in 1..Len(s.building_units[u].atoms) :
         Len(AtomsWithIndex(s, s.building_units[u].atoms[i].index)) # 1
    \/ \E c \in 1..Len(s.building_units[u].connect_points) :
         Len(PointsWithIndex(s.building_units[u],
                             s.building_units[u].connect_points[c].index)) # 1

\* C19: a copy whose lookup by index of an atom or a connection point
\* finds no match or more than one match stops the run: no copy is
\* returned and the search does not go on with that structure.
C19_AmbiguousCopyStopsRun ==
  [][ (pc = "for_bond" /\ bid <= Len(bondlist)
         /\ LookupNotUnique(structures[sid]))
        => (pc' = "IndexError" /\ newstruct' = newstruct) ]_vars

\* the structure and bond table the candidate's insert hands to bonding()
BeforeBonding ==
  LET bu == Bond0.bu_order + 1
  IN  insert_unit([ s |-> newstruct, tab |-> bondtab[newstruct.bonds] ],
                  bu, << bu, Bond0.order + 1 >>,
                  blocks[Bond1.bu_order + 1], Bond1.order + 1)

\* bonding()'s loop from pair (i, j) on: for every pair that passes the
\* test of line 509-510, in the loop's order, the structure and bond table
\* before and after it.  Between two such pairs nothing is written.
RECURSIVE BondingTrace(_, _, _, _)
BondingTrace(w, pts, i, j) ==
  LET n == Len(pts)
      rest == { pr \in (1..n) \X (1..n) :
                  /\ pr[1] < pr[2]
                  /\ pr[1] > i \/ (pr[1] = i /\ pr[2] >= j)
                  /\ BondTest(w.s, pts[pr[1]], pts[pr[2]]) }
  IN  IF rest = {} THEN << >>
      ELSE LET pr == CHOOSE x \in rest : \A y \in rest :
                       x[1] < y[1] \/ (x[1] = y[1] /\ x[2] <= y[2])
               w1 == BondingStep(w, pts[pr[1]], pts[pr[2]])
           IN  << [ pair |-> pr, before |-> w, after |-> w1 ] >>
                 \o (IF w1.s.cell.index > 3 THEN << >>
                     ELSE BondingTrace(w1, pts, pr[1], pr[2] + 1))

\* the structure and bond table bonding() holds when it reaches pair pr
StateAt(w0, trace, pr) ==
  LET earlier == { k \in 1..Len(trace) :
                     \/ trace[k].pair[1] < pr[1]
                     \/ trace[k].pair[1] = pr[1] /\ trace[k].pair[2] < pr[2] }
  IN  IF earlier = {} THEN w0
      ELSE trace[CHOOSE k \in earlier : \A m \in earlier : m <= k].after

\* the three outcomes of one pair (cp1, cp2), from w to v
PointOf(s, cp) == s.building_units[cp[1]].connect_points[cp[2]]

BondedLocally(w, v, cp1, cp2) ==
  /\ v.s.cell = w.s.cell
  /\ PointOf(v.s, cp1).bonded /\ PointOf(v.s, cp2).bonded

BondedAcrossCell(w, v, cp1, cp2) ==
  LET i == w.s.cell.index
  IN  /\ i < 3
      /\ v.s.cell.index = i + 1
      /\ v.s.cell.lattice[i + 1] =
           VSub(PointOf(w.s, cp2).coordinates, PointOf(w.s, cp1).coordinates)
      /\ v.s.cell.origin[i + 1] = PointOf(w.s, cp1).coordinates
      /\ \A k \in 1..i : /\ v.s.cell.lattice[k] = w.s.cell.lattice[k]
                         /\ v.s.cell.origin[k] = w.s.cell.origin[k]
      /\ PointOf(v.s, cp1).bonded /\ PointOf(v.s, cp2).bonded

NothingChanged(w, v) ==
  /\ v.s.cell = w.s.cell
  /\ v.tab = w.tab
  /\ \A u \in 1..Len(w.s.building_units) :
       \A c \in 1..Len(w.s.building_units[u].connect_points) :
         /\ PointOf(v.s, << u, c >>).bonded = PointOf(w.s, << u, c >>).bonded
         /\ PointOf(v.s, << u, c >>).bond_label
              = PointOf(w.s, << u, c >>).bond_label

PairOutcome(w, v, cp1, cp2) ==
  LET p == PointOf(w.s, cp1)
      q == PointOf(w.s, cp2)
      dvect == VSub(q.coordinates, p.coordinates)
      local == NearZero(periodic_shift(w.s.cell, dvect))
      accepted == valid_vector(w.s.cell, dvect)
      one == BondedLocally(w, v, cp1, cp2)
      two == BondedAcrossCell(w, v, cp1, cp2)
      three == NothingChanged(w, v)
  IN  IF valid_bond(w.s.building_units[p.bu_order + 1], p,
                    w.s.building_units[q.bu_order + 1], q)
         /\ is_aligned(w.s, cp1, cp2)
      THEN /\ local => one
           /\ (~local /\ accepted) => two
           /\ (~local /\ ~accepted) => three
           /\ (one /\ ~two /\ ~three) \/ (~one /\ two /\ ~three)
                \/ (~one /\ ~two /\ three)
      ELSE three

\* C20: every pair of connection points bonding() examines that is
\* compatible and aligned has exactly one of three outcomes: a local bond
\* with the cell unchanged when the shifted displacement is near zero;
\* else, when valid_vector accepts the raw displacement, one new cell
\* vector (that displacement, its origin the first point's position) and
\* a bond; else no change to the cell, the bonded flags, the bond labels
\* or the bond table.  A pair that is incompatible or not aligned changes
\* nothing.
C20_BondingOutcomes ==
  /\ [][ (pc = "copied" /\ ~Redundant) =>
           \A w0 \in { BeforeBonding } :
             \A pts \in { ConnectPts(w0.s.building_units,
                                     Len(w0.s.building_units)) } :
               \A trace \in { BondingTrace(w0, pts, 1, 2) } :
                 \A i \in 1..Len(pts) : \A j \in (i + 1)..Len(pts) :
                   \A w \in { StateAt(w0, trace, << i, j >>) } :
                     \A v \in { BondingStep(w, pts[i], pts[j]) } :
                       PairOutcome(w, v, pts[i], pts[j]) ]_vars
  \* the structure insert leaves is the one after the last pair
  /\ [][ (pc = "copied" /\ ~Redundant) =>
           \A w0 \in { BeforeBonding } :
             \A pts \in { ConnectPts(w0.s.building_units,
                                     Len(w0.s.building_units)) } :
               \A trace \in { BondingTrace(w0, pts, 1, 2) } :
                 \A last \in { StateAt(w0, trace,
                                       << Len(pts) + 1, Len(pts) + 2 >>) } :
                   /\ newstruct' = last.s
                   /\ bondtab'[newstruct.bonds] = last.tab ]_vars

\* an insertion into a periodic structure whose bonding() joined a point
\* of an older unit by a local bond, the cell staying as it was
C20_LocalBondInPeriodicCell ==
  /\ pc = "inserted"
  /\ newstruct.cell.index > 0
  /\ newstruct.cell = structures[sid].cell
  /\ \E u \in 1..Len(structures[sid].building_units) :
       \E c \in 1..Len(structures[sid].building_units[u].connect_points) :
         /\ PointOf(newstruct, << u, c >>).bond_from_search
         /\ PointOf(newstruct, << u, c >>).bonded
         /\ ~PointOf(structures[sid], << u, c >>).bonded

\* every point that is bonded in s is bonded, with the same label, in t
BondsKept(s, t) ==
  \A u \in 1..Len(s.building_units) :
    \A c \in 1..Len(s.building_units[u].connect_points) :
      PointOf(s, << u, c >>).bonded =>
        /\ PointOf(t, << u, c >>).bonded
        /\ PointOf(t, << u, c >>).bond_label = PointOf(s, << u, c >>).bond_label

\* the point of the copy that insert joins the new unit to (cbond)
JoinTarget == PointOf(newstruct, << Bond0.bu_order + 1, Bond0.order + 1 >>)

\* C21: a connection point is bonded at most once.  The direct join of
\* insert and every pair the bonding scan bonds take two points that are
\* both unbonded at that moment, and through copies, insertions and scans
\* a point that is bonded keeps its bonded flag and its bond label.
C21_BondedAtMostOnce ==
  \* the copy keeps what the structure holds
  /\ [][ (pc = "for_bond" /\ pc' = "copied") =>
           BondsKept(structures[sid], newstruct') ]_vars
  \* the direct join
  /\ [][ (pc = "copied" /\ pc' = "inserted") =>
           /\ ~JoinTarget.bonded
           /\ ~AddedBlock.connect_points[Bond1.order + 1].bonded
           /\ BondsKept(newstruct, newstruct') ]_vars
  \* the scan, pair by pair
  /\ [][ (pc = "copied" /\ ~Redundant) =>
           \A w0 \in { BeforeBonding } :
             \A pts \in { ConnectPts(w0.s.building_units,
                                     Len(w0.s.building_units)) } :
               \A trace \in { BondingTrace(w0, pts, 1, 2) } :
                 \A k \in 1..Len(trace) :
                   /\ BondsKept(trace[k].before.s, trace[k].after.s)
                   /\ trace[k].after # trace[k].before =>
                        /\ ~PointOf(trace[k].before.s,
                                    pts[trace[k].pair[1]]).bonded
                        /\ ~PointOf(trace[k].before.s,
                                    pts[trace[k].pair[2]]).bonded ]_vars

\* the rows the atom-to-atom bonds of the placed units of s stand for in
\* a global bond table
IntraUnitRows(s) ==
  UNION { LET rows == AtomBondRows(s.building_units[u],
                                   Len(s.building_units[u].bonds))
          IN  { rows[k] : k \in 1..Len(rows) } :
          u \in 1..Len(s.building_units) }

\* the number of times row stands in table
Occurrences(table, row) ==
  Cardinality({ i \in 1..Len(table) : table[i] = row })

\* row joins two atoms of different units of s that s records as bonded
InterUnitRow(s, row) ==
  LET all == FlatAtoms(s.building_units, Len(s.building_units))
  IN  \E m, n \in 1..Len(all) :
        LET a == s.building_units[all[m][1]].atoms[all[m][2]]
            b == s.building_units[all[n][1]].atoms[all[n][2]]
        IN  /\ all[m][1] # all[n][1]
            /\ a.index = row[1] /\ b.index = row[2]
            /\ \E k \in 1..Len(a.bonds) : a.bonds[k] = b.index
            /\ \E k \in 1..Len(b.bonds) : b.bonds[k] = a.index

\* C22: in every structure the search holds, each atom-to-atom bond inside
\* a placed unit stands exactly once in the structure's global bond table,
\* and every entry of the table comes from that structure: it is such a
\* bond or a bond between atoms of two of its units.
C22_BondTableHoldsEachBondOnce ==
  \A s \in Held :
    /\ \A row \in IntraUnitRows(s) : Occurrences(bondtab[s.bonds], row) = 1
    /\ \A i \in 1..Len(bondtab[s.bonds]) :
         \/ bondtab[s.bonds][i] \in IntraUnitRows(s)
         \/ InterUnitRow(s, bondtab[s.bonds][i])

\* order and bu_order name the places of the units and points of s
PlacesRecorded(s) ==
  \A u \in 1..Len(s.building_units) :
    /\ s.building_units[u].order = u - 1
    /\ \A c \in 1..Len(s.building_units[u].connect_points) :
         /\ PointOf(s, << u, c >>).bu_order = u - 1
         /\ PointOf(s, << u, c >>).order = c - 1

\* C23: in every structure the search holds, the unit at place i has
\* order i, its connection points have bu_order i, and a point's order is
\* its place in its unit's list; so the search's lookup
\* building_units[bond.bu_order].connect_points[bond.order] in the copy
\* returns the copy of the point of the bond list, in the unit that owns
\* it.
C23_OrdersArePlaces ==
  /\ [](\A s \in Held : PlacesRecorded(s))
  /\ [][ (pc = "for_bond" /\ pc' = "copied") =>
           /\ Bond0.bu_order + 1 = bondlist[bid][1][1]
           /\ Bond0.order + 1 = bondlist[bid][1][2]
           /\ PointOf(newstruct', << Bond0.bu_order + 1, Bond0.order + 1 >>)
                = Bond0 ]_vars

(***************************************************************************)
(* Properties of single functions                                          *)
(***************************************************************************)
\* C11: get_symmetry_info gives the same label in either argument order,
\* and it is the bond_label update_connectivities stores on both
\* connection points when the pair is bonded.
C11_LabelOrderIndependent ==
  (fn_done /\ fn_call.fn = "get_symmetry_info") =>
    /\ fn_ret.forward = fn_ret.backward
    /\ fn_ret.label = fn_ret.forward
    /\ fn_ret.add_label = fn_ret.forward

C11_LabelSwapped ==
  /\ fn_done
  /\ fn_call.fn = "get_symmetry_info"
  /\ fn_call.bu.internal_index > fn_call.add_bu.internal_index
  /\ fn_ret.forward[1][1] = fn_call.add_bu.internal_index

\* C16: after snap_to, whatever the angle between the two parallel
\* vectors, the unit's connection point is at the target point's position
\* and its parallel vector is anti-parallel to the target's.
C16_SnapToCoincidesAntiParallel ==
  (fn_done /\ fn_call.fn = "snap_to") =>
    /\ ~fn_ret.nan
    /\ fn_ret.connect_points[1].coordinates = fn_call.connect_point.coordinates
    /\ fn_ret.connect_points[1].para = VNeg(fn_call.connect_point.para)

\* C17: periodic_shift applied to its own result returns that result, for
\* cells with 0, 1, 2 and 3 accepted vectors, and with 0 accepted vectors
\* it returns the vector it was given.
C17_PeriodicShiftIdempotent ==
  (fn_done /\ fn_call.fn = "periodic_shift") =>
    /\ fn_ret.twice = fn_ret.once
    /\ fn_call.cell.index = 0 => fn_ret.once = fn_call.vector

C17_ShiftedAtHalf ==
  /\ fn_done
  /\ fn_call.fn = "periodic_shift"
  /\ fn_call.cell.index = 3
  /\ fn_call.cell.lattice[2] = << 1, 2, 0 >>
  /\ fn_call.vector = << 3, 3, 1 >>
  /\ fn_ret.once # fn_call.vector

=============================================================================
